---- MODULE Spec2Model ----
(***************************************************************************)
(* Portfolio Tracker (src/app.py): a Flask application with registration,  *)
(* login, logout, four pages behind login_required, a market-data fetch    *)
(* with a mock fallback (get_stock_data) and a chart renderer              *)
(* (create_stock_graph).                                                   *)
(*                                                                         *)
(* Spec      the web application: clients send requests, the handlers of   *)
(*           src/app.py answer them.  The register handler is two steps    *)
(*           (the form's validators, then the INSERT at commit) so that    *)
(*           requests of different clients interleave at the database.     *)
(* SpecData  get_stock_data as a function of its ticker and of what the    *)
(*           external request did.                                         *)
(***************************************************************************)
EXTENDS Integers, Sequences, FiniteSets, TLC

VARIABLES users, session, pending, resp, call, ret

vars == <<users, session, pending, resp, call, ret>>

(***************************************************************************)
(* Bounds and input pools.                                                 *)
(***************************************************************************)
MaxUsers == 2

Clients == {"c1", "c2"}
Usernames == {"", "alice", "bob"}
Emails == {"not-an-email", "alice@example.com", "bob@example.com"}
Passwords == {"", "secret123", "hunter2"}
NewPasswords == {"", "secret123"}
RepeatPasswords == {"secret123", "hunter2"}
\* salts generate_password_hash draws from
Salts == {"s1"}
Tickers == {"", "AAPL", "ZZZZ"}
Methods == {"GET", "POST"}

Anonymous == 0

(***************************************************************************)
(* Python values that cross the market-data interface.  A value is None,   *)
(* or a dict of date -> {'4. close': string} kept as a sequence of points  *)
(* in iteration order.                                                     *)
(***************************************************************************)
None == [kind |-> "None", points |-> <<>>]
Dict(points) == [kind |-> "dict", points |-> points]
Truthy(v) == v.kind = "dict" /\ Len(v.points) > 0

GoodSeries ==
    Dict(<< [date |-> "2024-01-03", close |-> "151.25"],
            [date |-> "2024-01-02", close |-> "150.00"] >>)
BadSeries ==
    Dict(<< [date |-> "2024-01-03", close |-> "151.25"],
            [date |-> "2024-01-02", close |-> "n/a"] >>)
EmptySeries == Dict(<< >>)

\* data.get_mock_stock_data: deterministic per ticker, enough points to chart.
get_mock_stock_data(ticker) ==
    Dict(<< [date |-> "2023-01-01", close |-> "100.00"],
            [date |-> "2023-01-02", close |-> IF ticker = "AAPL" THEN "101.00"
                                              ELSE IF ticker = "GOOGL" THEN "102.00"
                                              ELSE IF ticker = "ZZZZ" THEN "103.00"
                                              ELSE "104.00"] >>)

\* data.get_mock_profile(user)['preferred_stocks']
PreferredStocks == << "AAPL", "GOOGL" >>

(***************************************************************************)
(* What the external request of get_stock_data can do.                     *)
(*   kind   connection_error | timeout | http_error (raise_for_status)     *)
(*          | invalid_json (response.json() raises)  | json                *)
(*   shape  of a parsed body: object | array | string | scalar             *)
(*   has_error   'Error Message' is a key / an element / a substring       *)
(*   has_ts, ts  the 'Time Series (Daily)' key of an object and its value  *)
(* response.json() raises requests.JSONDecodeError, a RequestException     *)
(* (requests >= 2.27).                                                     *)
(***************************************************************************)
Outcome(kind, shape, has_error, has_ts, ts) ==
    [kind |-> kind, shape |-> shape, has_error |-> has_error, has_ts |-> has_ts,
     ts |-> ts]

TSValues == {None, EmptySeries, GoodSeries, BadSeries}

Outcomes ==
    {Outcome(k, "", FALSE, FALSE, None) :
        k \in {"connection_error", "timeout", "http_error", "invalid_json"}}
    \cup {Outcome("json", "object", e, FALSE, None) : e \in BOOLEAN}
    \cup {Outcome("json", "object", e, TRUE, t) : e \in BOOLEAN, t \in TSValues}
    \cup {Outcome("json", s, e, FALSE, None) : s \in {"array", "string"}, e \in BOOLEAN}
    \cup {Outcome("json", "scalar", FALSE, FALSE, None)}

NoCall == Outcome("none", "", FALSE, FALSE, None)

Returned(value) == [raised |-> "none", value |-> value]
Raised(error) == [raised |-> error, value |-> None]

\* the body of the try block once response.json() has returned `data`
get_stock_data_parsed(ticker, o) ==
    IF o.shape = "scalar"
    THEN Raised("TypeError")                      \* 'Error Message' in 5
    ELSE IF o.has_error
    THEN Returned(get_mock_stock_data(ticker))
    ELSE IF o.shape # "object"
    THEN Raised("AttributeError")                 \* list / str have no .get
    ELSE LET time_series == IF o.has_ts THEN o.ts ELSE None
         IN  IF ~Truthy(time_series)
             THEN Returned(get_mock_stock_data(ticker))
             ELSE Returned(time_series)

get_stock_data(ticker, o) ==
    IF o.kind \in {"connection_error", "timeout", "http_error", "invalid_json"}
    THEN Returned(get_mock_stock_data(ticker))    \* except requests.RequestException
    ELSE get_stock_data_parsed(ticker, o)

\* float(s) for the strings of the model, in hundredths; any other string
\* raises ValueError
FloatTable ==
    {<<"100.00", 10000>>, <<"101.00", 10100>>, <<"102.00", 10200>>,
     <<"103.00", 10300>>, <<"104.00", 10400>>, <<"150.00", 15000>>,
     <<"151.25", 15125>>}
IsFloat(s) == \E p \in FloatTable : p[1] = s
ToFloat(s) == (CHOOSE p \in FloatTable : p[1] = s)[2]

\* graph_url = None
NoGraph == [prefix |-> "", ticker |-> "", dates |-> <<>>, closes |-> <<>>]

create_stock_graph(ticker, time_series) ==
    LET pts == time_series.points
    IN  IF \E i \in 1..Len(pts) : ~IsFloat(pts[i].close)
        THEN [raised |-> "ValueError", value |-> NoGraph]
        ELSE [raised |-> "none",
              value |-> [prefix |-> "data:image/png;base64,", ticker |-> ticker,
                         dates |-> [i \in 1..Len(pts) |-> pts[i].date],
                         closes |-> [i \in 1..Len(pts) |-> ToFloat(pts[i].close)]]]


(***************************************************************************)
(* Credential store: the User table and werkzeug's salted hash.            *)
(***************************************************************************)
generate_password_hash(password, salt) ==
    [salt |-> salt, digest |-> <<salt, password>>]
check_password_hash(pwhash, password) ==
    pwhash.digest = <<pwhash.salt, password>>

User(id, username, email, password_hash) ==
    [id |-> id, username |-> username, email |-> email, password_hash |-> password_hash]

check_password(user, password) == check_password_hash(user.password_hash, password)

\* User.query.filter_by(username=...).first() / filter_by(email=...).first()
ByUsername(table, username) == {u \in table : u.username = username}
ByEmail(table, email) == {u \in table : u.email = email}

\* mutant: columns declared without unique=True
UniqueViolation_NoIndex(table, user) == FALSE

\* the unique indexes of User.username and User.email, enforced at INSERT
UniqueViolation(table, user) ==
    \E u \in table : u.username = user.username \/ u.email = user.email

(***************************************************************************)
(* Forms.  validate_on_submit() is "the method submits and every field     *)
(* validates".  DataRequired stops the field's chain, the other validators *)
(* add their error and go on.  Clients send back the CSRF token the form   *)
(* was served with, so the token field always validates.                   *)
(***************************************************************************)
IsEmail(s) == s \in {"alice@example.com", "bob@example.com"}

Required(field, data) ==
    IF data = "" THEN {<<field, "This field is required.">>} ELSE {}

LoginForms == [username : Usernames, password : Passwords]
LoginFormErrors(form) ==
    Required("username", form.username) \cup Required("password", form.password)

validate_username(table, username) ==
    IF ByUsername(table, username) # {}
    THEN {<<"username", "Please use a different username.">>} ELSE {}
\* mutant: no email lookup
validate_email_Skipped(table, email) == {}

validate_email(table, email) ==
    IF ByEmail(table, email) # {}
    THEN {<<"email", "Please use a different email address.">>} ELSE {}

RegistrationForms ==
    [username : Usernames, email : Emails, password : NewPasswords,
     password2 : RepeatPasswords]
RegistrationFormErrors(table, form) ==
    (IF form.username = "" THEN Required("username", form.username)
     ELSE validate_username(table, form.username))
    \cup (IF form.email = "" THEN Required("email", form.email)
          ELSE (IF IsEmail(form.email) THEN {}
                ELSE {<<"email", "Invalid email address.">>})
               \cup validate_email(table, form.email))
    \cup Required("password", form.password)
    \cup (IF form.password2 = "" THEN Required("password2", form.password2)
          ELSE IF form.password2 # form.password
          THEN {<<"password2", "Field must be equal to password.">>} ELSE {})

StockForms == [ticker : Tickers]
StockFormErrors(form) == Required("ticker", form.ticker)

(***************************************************************************)
(* Responses.  `user` is current_user when the request arrived, `handler`  *)
(* says the body of the route's view function ran, `fetches` counts the    *)
(* external requests it made, `flash` holds the messages it flashed.       *)
(* status 0 is a request still in flight.                                  *)
(***************************************************************************)
Response(c, user, route) ==
    [client |-> c, user |-> user, route |-> route, status |-> 200, location |-> "",
     view |-> "", flash |-> {}, errors |-> {}, handler |-> FALSE, fetches |-> 0,
     stock_data |-> None, dashboard |-> <<>>, graph_url |-> NoGraph,
     raised |-> "none"]

NoResponse == [Response("", Anonymous, "") EXCEPT !.status = 0]

redirect(r, target) == [r EXCEPT !.status = 302, !.location = target]
render_template(r, view) == [r EXCEPT !.view = view]
flash(r, message) == [r EXCEPT !.flash = @ \cup {message}]
\* an exception that leaves the view: @app.errorhandler(500)
internal_error(r, error) ==
    [Response(r.client, r.user, r.route) EXCEPT
        !.status = 500, !.view = "500.html", !.raised = error,
        !.handler = r.handler, !.fetches = r.fetches]

\* mutant: the decorator left off the route
login_required_NoCheck(r, user, result) == result

\* flask_login.login_required with login_manager.login_view = 'login'
login_required(r, user, result) ==
    IF user = Anonymous
    THEN redirect(flash(r, "Please log in to access this page."), "login")
    ELSE result


(***************************************************************************)
(* View functions.  Each takes the response under construction `r`         *)
(* (r.user is current_user) and returns what the view returns.             *)
(***************************************************************************)
index(r) == render_template(r, "index.html")

\* mutant: the early return for logged-in clients left out
is_authenticated_Never(user) == FALSE

\* current_user.is_authenticated
is_authenticated(user) == user # Anonymous

\* mutant: the password test left out
invalid_credentials_IgnoresPassword(found, password) == found = {}

\* user is None or not user.check_password(form.password.data)
invalid_credentials(found, password) ==
    found = {} \/ \A u \in found : ~check_password(u, password)

\* returns the response and the user the session holds afterwards
login(r, table, method, form) ==
    IF is_authenticated(r.user)
    THEN [resp |-> redirect(r, "index"), user |-> r.user]
    ELSE IF method = "POST" /\ LoginFormErrors(form) = {}
    THEN LET found == ByUsername(table, form.username)
         IN  IF invalid_credentials(found, form.password)
             THEN [resp |-> redirect(flash(r, "Invalid username or password"), "login"),
                   user |-> Anonymous]
             ELSE [resp |-> redirect(r, "index"),
                   user |-> (CHOOSE u \in found : TRUE).id]
    ELSE [resp |-> [render_template(r, "login.html") EXCEPT
                       !.errors = IF method = "POST" THEN LoginFormErrors(form) ELSE {}],
          user |-> Anonymous]

\* mutant: logout_user() left out
logout_KeepsSession(r) == [resp |-> redirect(r, "index"), user |-> r.user]

\* logout_user(); redirect(url_for('index'))
logout(r) == [resp |-> redirect(r, "index"), user |-> Anonymous]

NoForm == [username |-> "", email |-> "", password |-> ""]

\* register up to db.session.commit(): the response, or the validated form
\* whose INSERT is still to be committed (resp.status = 0)
register(r, table, method, form) ==
    IF is_authenticated(r.user)
    THEN [resp |-> redirect(r, "index"), form |-> NoForm]
    ELSE IF method = "POST" /\ RegistrationFormErrors(table, form) = {}
    THEN [resp |-> [r EXCEPT !.status = 0],
          form |-> [username |-> form.username, email |-> form.email,
                    password |-> form.password]]
    ELSE [resp |-> [render_template(r, "register.html") EXCEPT
                       !.errors = IF method = "POST"
                                  THEN RegistrationFormErrors(table, form) ELSE {}],
          form |-> NoForm]

\* db.session.add(user); db.session.commit() and the rest of register
register_commit(r, table, form, salt) ==
    LET user == User(Cardinality(table) + 1, form.username, form.email,
                     generate_password_hash(form.password, salt))
    IN  IF UniqueViolation(table, user)
        THEN [resp |-> internal_error(r, "IntegrityError"), table |-> table]
        ELSE [resp |-> redirect(flash(r, "Congratulations, you are now a registered user!"),
                                "login"),
              table |-> table \cup {user}]

\* outs[i] is what the external request for PreferredStocks[i] does
dashboard(r, outs) ==
    LET n == Len(PreferredStocks)
        got == [i \in 1..n |-> get_stock_data(PreferredStocks[i], outs[i])]
        failed == {i \in 1..n : got[i].raised # "none"}
        first == CHOOSE i \in failed : \A j \in failed : i <= j
    IN  IF failed # {}
        THEN internal_error([r EXCEPT !.fetches = first], got[first].raised)
        ELSE [render_template(r, "dashboard.html") EXCEPT
                 !.fetches = n, !.dashboard = [i \in 1..n |-> got[i].value]]

profile(r) == render_template(r, "profile.html")

stock_tracker(r, method, form, o) ==
    IF method = "POST" /\ StockFormErrors(form) = {}
    THEN LET ticker == form.ticker
             got == get_stock_data(ticker, o)
             r1 == [r EXCEPT !.fetches = 1]
         IN  IF got.raised # "none"
             THEN internal_error(r1, got.raised)
             ELSE IF Truthy(got.value)
             THEN LET graph == create_stock_graph(ticker, got.value)
                  IN  IF graph.raised # "none"
                      THEN internal_error(r1, graph.raised)
                      ELSE [render_template(r1, "stock_tracker.html") EXCEPT
                               !.stock_data = got.value, !.graph_url = graph.value]
             ELSE [render_template(
                       flash(r1, "Error retrieving stock data. Displaying mock data."),
                       "stock_tracker.html") EXCEPT !.stock_data = got.value]
    ELSE [render_template(r, "stock_tracker.html") EXCEPT
             !.errors = IF method = "POST" THEN StockFormErrors(form) ELSE {}]

recommendations(r) == render_template(r, "recommendations.html")


(***************************************************************************)
(* The web application.                                                    *)
(*   users    the User table                                               *)
(*   session  per client, the id of the logged-in user or Anonymous        *)
(*   pending  per client, the validated registration whose INSERT is not   *)
(*            committed yet, or NoForm                                     *)
(*   resp     the response to the last request handled                     *)
(***************************************************************************)
NotCalled == [raised |-> "not called", value |-> None]

Init ==
    /\ users = {}
    /\ session = [c \in Clients |-> Anonymous]
    /\ pending = [c \in Clients |-> NoForm]
    /\ resp = NoResponse
    /\ call = [ticker |-> "", outcome |-> NoCall]
    /\ ret = NotCalled

\* a client sends its next request once the previous one is answered
Idle(c) == pending[c] = NoForm
Request(c, route) == Response(c, session[c], route)
Entered(r) == [r EXCEPT !.handler = TRUE]

\* a GET carries no form data
EmptyLoginForm == [username |-> "", password |-> ""]
EmptyRegistrationForm ==
    [username |-> "", email |-> "", password |-> "", password2 |-> ""]
EmptyStockForm == [ticker |-> ""]

\* the outcomes drawn for the stock tracker's fetch
WebOutcomes ==
    {o \in Outcomes :
        \/ o.kind \in {"timeout", "http_error", "invalid_json"}
        \/ o.shape = "array" /\ ~o.has_error
        \/ o.shape = "object" /\ o.has_ts /\ (o.has_error => o.ts = GoodSeries)}

\* the outcomes drawn for the dashboard's fetches
DashOutcomes ==
    {Outcome("timeout", "", FALSE, FALSE, None),
     Outcome("json", "object", FALSE, TRUE, GoodSeries),
     Outcome("json", "array", FALSE, FALSE, None)}

Index(c) ==
    /\ Idle(c)
    /\ resp' = index(Entered(Request(c, "index")))
    /\ UNCHANGED <<users, session, pending, call, ret>>

LoginStep(c, method, form) ==
    /\ Idle(c)
    /\ LET out == login(Entered(Request(c, "login")), users, method, form)
       IN  /\ resp' = out.resp
           /\ session' = [session EXCEPT ![c] = out.user]
    /\ UNCHANGED <<users, pending, call, ret>>

Login(c) ==
    \E method \in Methods :
    \E form \in (IF method = "GET" THEN {EmptyLoginForm} ELSE LoginForms) :
        LoginStep(c, method, form)

Logout(c) ==
    /\ Idle(c)
    /\ LET out == logout(Entered(Request(c, "logout")))
       IN  /\ resp' = out.resp
           /\ session' = [session EXCEPT ![c] = out.user]
    /\ UNCHANGED <<users, pending, call, ret>>

InFlight == {c \in Clients : pending[c] # NoForm}

RegisterStep(c, method, form) ==
    /\ Idle(c)
    /\ LET out == register(Entered(Request(c, "register")), users, method, form)
       IN  /\ out.form # NoForm
                 => Cardinality(users) + Cardinality(InFlight) < MaxUsers
           /\ resp' = out.resp
           /\ pending' = [pending EXCEPT ![c] = out.form]
    /\ UNCHANGED <<users, session, call, ret>>

Register(c) ==
    \E method \in Methods :
    \E form \in (IF method = "GET" THEN {EmptyRegistrationForm}
                 ELSE RegistrationForms) :
        RegisterStep(c, method, form)

RegisterCommit(c) ==
    /\ ~Idle(c)
    /\ \E salt \in Salts :
          LET out == register_commit(Entered(Request(c, "register")), users,
                                     pending[c], salt)
          IN  /\ resp' = out.resp
              /\ users' = out.table
    /\ pending' = [pending EXCEPT ![c] = NoForm]
    /\ UNCHANGED <<session, call, ret>>

Dashboard(c) ==
    /\ Idle(c)
    /\ \E outs \in (IF session[c] = Anonymous
                    THEN {[i \in 1..Len(PreferredStocks) |-> NoCall]}
                    ELSE [1..Len(PreferredStocks) -> DashOutcomes]) :
          resp' = login_required(Request(c, "dashboard"), session[c],
                                 dashboard(Entered(Request(c, "dashboard")), outs))
    /\ UNCHANGED <<users, session, pending, call, ret>>

Profile(c) ==
    /\ Idle(c)
    /\ resp' = login_required(Request(c, "profile"), session[c],
                              profile(Entered(Request(c, "profile"))))
    /\ UNCHANGED <<users, session, pending, call, ret>>

StockTrackerStep(c, method, form, o) ==
    /\ Idle(c)
    /\ resp' = login_required(Request(c, "stock_tracker"), session[c],
                   stock_tracker(Entered(Request(c, "stock_tracker")), method, form, o))
    /\ UNCHANGED <<users, session, pending, call, ret>>

\* the external request is drawn only where the view makes it
StockTracker(c) ==
    \E method \in Methods :
    \E form \in (IF method = "GET" THEN {EmptyStockForm} ELSE StockForms) :
    \E o \in (IF session[c] # Anonymous /\ method = "POST"
                 /\ StockFormErrors(form) = {}
              THEN WebOutcomes ELSE {NoCall}) :
        StockTrackerStep(c, method, form, o)

Recommendations(c) ==
    /\ Idle(c)
    /\ resp' = login_required(Request(c, "recommendations"), session[c],
                              recommendations(Entered(Request(c, "recommendations"))))
    /\ UNCHANGED <<users, session, pending, call, ret>>

Next ==
    \E c \in Clients :
        \/ Index(c)
        \/ Login(c)
        \/ Logout(c)
        \/ Register(c)
        \/ RegisterCommit(c)
        \/ Dashboard(c)
        \/ Profile(c)
        \/ StockTracker(c)
        \/ Recommendations(c)

Spec == Init /\ [][Next]_vars

(***************************************************************************)
(* get_stock_data alone: one call for every ticker and every outcome of    *)
(* the external request.                                                   *)
(***************************************************************************)
InitData ==
    /\ users = {}
    /\ session = [c \in Clients |-> Anonymous]
    /\ pending = [c \in Clients |-> NoForm]
    /\ resp = NoResponse
    /\ call \in [ticker : Tickers, outcome : Outcomes]
    /\ ret = NotCalled

CallGetStockData ==
    /\ ret = NotCalled
    /\ ret' = get_stock_data(call.ticker, call.outcome)
    /\ UNCHANGED <<users, session, pending, resp, call>>

NextData == CallGetStockData

SpecData == InitData /\ [][NextData]_vars


(***************************************************************************)
(* Properties.                                                             *)
(***************************************************************************)
ProtectedRoutes == {"dashboard", "profile", "stock_tracker", "recommendations"}

Verifies(form) ==
    \E u \in users : u.username = form.username /\ check_password(u, form.password)

InvalidCredentialsOutcome(c) ==
    /\ resp'.status = 302 /\ resp'.location = "login"
    /\ resp'.flash = {"Invalid username or password"}
    /\ session'[c] = Anonymous

\* C1: a protected route runs its handler only for a client with an active
\* session; without one the handler does not run (no fetch, no chart) and the
\* response is a redirect to the login page.
C1_ProtectedRoutesNeedSession ==
    resp.route \in ProtectedRoutes /\ resp.status # 0 =>
        /\ resp.handler => session[resp.client] # Anonymous
        /\ session[resp.client] = Anonymous =>
              /\ ~resp.handler /\ resp.fetches = 0
              /\ resp.graph_url = NoGraph /\ resp.stock_data = None
              /\ resp.dashboard = <<>>
              /\ resp.status = 302 /\ resp.location = "login"

\* an anonymous client is turned away while another client is logged in
C1_Witness ==
    /\ resp.route \in ProtectedRoutes
    /\ session[resp.client] = Anonymous
    /\ resp.status = 302 /\ resp.location = "login"
    /\ \E c \in Clients : session[c] # Anonymous

\* C2 as written: every login submission of an anonymous client with an
\* unknown username or a wrong password gets the same redirect and the flash
\* 'Invalid username or password' and leaves the client anonymous; a session
\* starts only with a username that exists and a password that verifies, for
\* exactly that user.
C2_Original ==
    [][/\ resp'.route = "login" =>
            \A form \in LoginForms :
                (/\ LoginStep(resp'.client, "POST", form)
                 /\ session[resp'.client] = Anonymous
                 /\ ~Verifies(form))
                => InvalidCredentialsOutcome(resp'.client)
       /\ \A c \in Clients :
            session[c] = Anonymous /\ session'[c] # Anonymous =>
                \E form \in LoginForms, u \in users :
                    /\ LoginStep(c, "POST", form)
                    /\ u.username = form.username
                    /\ check_password(u, form.password)
                    /\ session'[c] = u.id]_vars

\* C2 amended: the same, for submissions that pass the form's validators
\* (username and password both filled in).
C2_InvalidCredentialsIndistinguishable ==
    [][/\ resp'.route = "login" =>
            \A form \in LoginForms :
                (/\ LoginStep(resp'.client, "POST", form)
                 /\ session[resp'.client] = Anonymous
                 /\ LoginFormErrors(form) = {}
                 /\ ~Verifies(form))
                => InvalidCredentialsOutcome(resp'.client)
       /\ \A c \in Clients :
            session[c] = Anonymous /\ session'[c] # Anonymous =>
                \E form \in LoginForms, u \in users :
                    /\ LoginStep(c, "POST", form)
                    /\ u.username = form.username
                    /\ check_password(u, form.password)
                    /\ session'[c] = u.id]_vars

\* with both usernames registered, a rejected login is a wrong password
C2_Witness ==
    /\ resp.route = "login" /\ resp.user = Anonymous
    /\ resp.flash = {"Invalid username or password"}
    /\ session[resp.client] = Anonymous
    /\ {u.username : u \in users} = Usernames \ {""}


UsernameTaken(form) == \E u \in users : u.username = form.username
EmailTaken(form) == \E u \in users : u.email = form.email

RegistrationRejected(c, form) ==
    /\ UsernameTaken(form)
          => <<"username", "Please use a different username.">> \in resp'.errors
    /\ EmailTaken(form)
          => <<"email", "Please use a different email address.">> \in resp'.errors
    /\ resp'.status = 200 /\ resp'.view = "register.html"
    /\ users' = users
    /\ pending'[c] = NoForm

\* C3 as written: every registration submission with the username or the
\* email of an existing user fails with that field's validation error, the
\* form is shown again and the user table is unchanged.
C3_Original ==
    [][resp'.route = "register" =>
          \A form \in RegistrationForms :
              (/\ (UsernameTaken(form) \/ EmailTaken(form))
               /\ RegisterStep(resp'.client, "POST", form))
              => RegistrationRejected(resp'.client, form)]_vars

\* C3 amended: the same, for a submission by a client with no active session.
C3_DuplicateRegistrationRejected ==
    [][resp'.route = "register" =>
          \A form \in RegistrationForms :
              (/\ session[resp'.client] = Anonymous
               /\ (UsernameTaken(form) \/ EmailTaken(form))
               /\ RegisterStep(resp'.client, "POST", form))
              => RegistrationRejected(resp'.client, form)]_vars

\* a registration turned down for its email alone
C3_Witness ==
    /\ resp.route = "register" /\ resp.user = Anonymous
    /\ resp.status = 200 /\ resp.view = "register.html"
    /\ resp.errors = {<<"email", "Please use a different email address.">>}
    /\ users # {}

\* C4: no two user records share a username or an email, whatever the
\* interleaving of the registrations' validators and commits.
C4_UniqueUsernameAndEmail ==
    \A u, v \in users :
        u # v => u.username # v.username /\ u.email # v.email /\ u.id # v.id

\* a registration that passed the validators and lost the race at commit
C4_Witness ==
    /\ resp.route = "register" /\ resp.raised = "IntegrityError"
    /\ resp.status = 500
    /\ users # {}

\* C5: get_stock_data returns a non-empty series and raises nothing, for
\* every ticker and every outcome of the external request.
C5_NeverRaisesNeverEmpty ==
    ret # NotCalled => ret.raised = "none" /\ Truthy(ret.value)

\* C6: get_stock_data returns the 'Time Series (Daily)' value unmodified
\* exactly when the request succeeds, the body parses, has no 'Error Message'
\* field and has the field; in every other case it returns the mock series of
\* the ticker.
C6_Verbatim(o) ==
    /\ o.kind = "json" /\ o.shape = "object"
    /\ ~o.has_error /\ o.has_ts

C6_VerbatimOrMock ==
    ret # NotCalled =>
        IF C6_Verbatim(call.outcome)
        THEN ret = Returned(call.outcome.ts)
        ELSE ret = Returned(get_mock_stock_data(call.ticker))

ProviderFailed(o) == o.kind \in {"connection_error", "timeout", "http_error"}

\* C7: an authenticated ticker submission whose external request fails is
\* answered 200 with the mock series of the ticker and a flashed warning.
C7_ProviderFailureWarns ==
    [][resp'.route = "stock_tracker" =>
          \A form \in StockForms, o \in WebOutcomes :
              (/\ StockTrackerStep(resp'.client, "POST", form, o)
               /\ session[resp'.client] # Anonymous
               /\ StockFormErrors(form) = {}
               /\ ProviderFailed(o))
              => /\ resp'.status = 200
                 /\ resp'.stock_data = get_mock_stock_data(form.ticker)
                 /\ resp'.flash # {}]_vars

HasNonNumericClose(series) ==
    \E i \in 1..Len(series.points) : ~IsFloat(series.points[i].close)

\* C8: a series with a non-numeric close makes the render fail without an
\* image, and the stock tracker page still renders: 200, no graph_url.
C8_MalformedSeriesOmitsChart ==
    [][resp'.route = "stock_tracker" =>
          \A form \in StockForms, o \in WebOutcomes :
              (/\ StockTrackerStep(resp'.client, "POST", form, o)
               /\ session[resp'.client] # Anonymous
               /\ StockFormErrors(form) = {}
               /\ get_stock_data(form.ticker, o).raised = "none"
               /\ HasNonNumericClose(get_stock_data(form.ticker, o).value))
              => /\ create_stock_graph(form.ticker,
                        get_stock_data(form.ticker, o).value).raised # "none"
                 /\ resp'.graph_url = NoGraph
                 /\ resp'.status = 200
                 /\ resp'.view = "stock_tracker.html"]_vars

\* C9: a logout leaves the client anonymous and redirects home, and changes
\* nothing when no session was active; a session starts only by a successful
\* login of that client and ends only by its logout.
C9_SessionLifecycle ==
    [][/\ resp'.route = "logout" =>
            /\ session'[resp'.client] = Anonymous
            /\ resp'.status = 302 /\ resp'.location = "index"
            /\ \A c \in Clients \ {resp'.client} : session'[c] = session[c]
            /\ users' = users
            /\ session[resp'.client] = Anonymous => session' = session
       /\ \A c \in Clients :
            session[c] = Anonymous /\ session'[c] # Anonymous =>
                /\ resp'.route = "login" /\ resp'.client = c
                /\ resp'.status = 302 /\ resp'.location = "index"
                /\ \E form \in LoginForms :
                      LoginStep(c, "POST", form) /\ Verifies(form)
       /\ \A c \in Clients :
            session[c] # Anonymous /\ session'[c] # session[c] =>
                resp'.route = "logout" /\ resp'.client = c]_vars

\* a logout that ended an active session
C9_Witness ==
    /\ resp.route = "logout" /\ resp.user # Anonymous
    /\ session[resp.client] = Anonymous
    /\ resp.status = 302 /\ resp.location = "index"

\* C10: /login and /register with an active session redirect home and
\* process nothing: same current user, no flash, no record, nothing pending.
C10_AuthenticatedFormsRedirectHome ==
    [][resp'.route \in {"login", "register"}
          /\ session[resp'.client] # Anonymous =>
             /\ resp'.status = 302 /\ resp'.location = "index"
             /\ resp'.flash = {} /\ resp'.errors = {}
             /\ session' = session
             /\ users' = users
             /\ pending' = pending]_vars

\* a logged-in client sent to the home page by /register while the table has
\* room for the other username, and by /login while another user exists
C10_Witness ==
    /\ resp.route \in {"login", "register"}
    /\ resp.user # Anonymous /\ session[resp.client] = resp.user
    /\ resp.status = 302 /\ resp.location = "index"
    /\ Cardinality(users) = 1

====
